---- MODULE Spec2Model ----
(***************************************************************************)
(* Model of OneMaxGA (src/OneMax.py): a generational genetic algorithm for *)
(* the One-Max problem with roulette-wheel selection, one-point crossover, *)
(* bit-flip mutation and elitism.                                           *)
(*                                                                          *)
(* Python floats are IEEE-754 binary64 values.  The non-negative ones that  *)
(* the program computes are modelled bit-exactly as records [e, hi, lo]:    *)
(* hi * 2^27 + lo is the 53-bit significand m and the value is              *)
(* m * 2^(e-52).  Division and addition round to nearest, ties to even.     *)
(***************************************************************************)
EXTENDS Integers, Sequences, FiniteSets, TLC

\* ------------------------------------------------------------------------
\* Bounds of the model
\* ------------------------------------------------------------------------
MaxPop == 3        \* population_size <= MaxPop
MaxGenes == 6      \* population_size * chromosome_length <= MaxGenes
MaxLen == 3        \* chromosome_length <= MaxLen
MaxGen == 1        \* max_generations <= MaxGen
TablePop == 7      \* population_size <= TablePop in TableSpec
TableLen == 2      \* chromosome_length <= TableLen in TableSpec

\* Probabilities and random draws are the floats nearest to the multiples
\* of 1/Den and are kept as their numerators, which compare as they do.
Den == 3

\* ------------------------------------------------------------------------
\* IEEE-754 binary64 arithmetic (non-negative finite values)
\* ------------------------------------------------------------------------
RECURSIVE Pow2(_)
Pow2(n) == IF n = 0 THEN 1 ELSE 2 * Pow2(n - 1)

\* The 53-bit significand is kept in two limbs: the upper HiBits bits in
\* hi and the lower LoBits bits in lo.
HiBits == 26

LoBits == 27

Power == [n \in 0..LoBits |-> Pow2(n)]

HiBase == Power[HiBits]

LoBase == Power[LoBits]

FloatZero == [e |-> -1075, hi |-> 0, lo |-> 0]

FloatOne == [e |-> 0, hi |-> HiBase \div 2, lo |-> 0]

IsZero(x) == x.hi = 0

\* Round the significand (hi, lo), which is followed by the bit guard and
\* by further bits that are non-zero iff sticky, to nearest, ties to even.
RoundNearestEven(e, hi, lo, guard, sticky) ==
    IF ~(guard = 1 /\ (sticky \/ lo % 2 = 1)) THEN [e |-> e, hi |-> hi, lo |-> lo]
    ELSE IF lo + 1 < LoBase THEN [e |-> e, hi |-> hi, lo |-> lo + 1]
    ELSE IF hi + 1 < HiBase THEN [e |-> e, hi |-> hi + 1, lo |-> 0]
    ELSE [e |-> e + 1, hi |-> HiBase \div 2, lo |-> 0]

\* Scale a > 0 and b > 0 so that b' <= a' < 2 b'; sh is the exponent.
RECURSIVE Normalise(_, _, _)
Normalise(a, b, sh) ==
    IF a < b THEN Normalise(2 * a, b, sh - 1)
    ELSE IF a >= 2 * b THEN Normalise(a, 2 * b, sh + 1)
    ELSE [a |-> a, b |-> b, e |-> sh]

\* Long division: the next w bits of the binary expansion of r/d, for
\* 0 <= r < d, and the remainder they leave.
Digits(r, d, w) == [q |-> (r * Power[w]) \div d, r |-> (r * Power[w]) % d]

\* Python's a / b for integers a >= 0 and 0 < b < 2^16: the correctly
\* rounded quotient.  The 52 bits after the leading 1 are produced 13, 12,
\* 13 and 14 at a time.
TrueDiv(a, b) ==
    IF a = 0 THEN FloatZero
    ELSE LET n  == Normalise(a, b, 0)
             d1 == Digits(n.a - n.b, n.b, 13)
             d2 == Digits(d1.r, n.b, 12)
             d3 == Digits(d2.r, n.b, 13)
             d4 == Digits(d3.r, n.b, 14)
             guard == IF 2 * d4.r >= n.b THEN 1 ELSE 0
         IN RoundNearestEven(n.e,
                HiBase \div 2 + d1.q * Power[12] + d2.q,
                d3.q * Power[14] + d4.q,
                guard,
                2 * d4.r - guard * n.b # 0)

\* The significand (hi, lo) shifted right by d >= 0 bits, with the guard
\* bit and the sticky flag of the bits shifted out.
ShiftRight(hi, lo, d) ==
    IF d = 0 THEN [hi |-> hi, lo |-> lo, guard |-> 0, sticky |-> FALSE]
    ELSE IF d < LoBits
    THEN [hi |-> hi \div Power[d],
          lo |-> lo \div Power[d] + (hi % Power[d]) * Power[LoBits - d],
          guard |-> (lo % Power[d]) \div Power[d - 1],
          sticky |-> lo % Power[d - 1] # 0]
    ELSE IF d = LoBits
    THEN [hi |-> 0, lo |-> hi,
          guard |-> lo \div Power[LoBits - 1],
          sticky |-> lo % Power[LoBits - 1] # 0]
    ELSE IF d <= HiBits + LoBits
    THEN [hi |-> 0, lo |-> hi \div Power[d - LoBits],
          guard |-> (hi \div Power[d - LoBits - 1]) % 2,
          sticky |-> hi % Power[d - LoBits - 1] # 0 \/ lo # 0]
    ELSE [hi |-> 0, lo |-> 0, guard |-> 0, sticky |-> TRUE]

\* Python's x + y for two floats.
FloatAdd(x, y) ==
    IF IsZero(x) THEN y
    ELSE IF IsZero(y) THEN x
    ELSE LET big   == IF x.e >= y.e THEN x ELSE y
             small == IF x.e >= y.e THEN y ELSE x
             s     == ShiftRight(small.hi, small.lo, big.e - small.e)
             lo    == big.lo + s.lo
             hi    == big.hi + s.hi + lo \div LoBase
         IN IF hi >= HiBase
            THEN RoundNearestEven(big.e + 1, hi \div 2,
                     (lo % LoBase) \div 2 + (hi % 2) * (LoBase \div 2),
                     lo % 2, s.guard = 1 \/ s.sticky)
            ELSE RoundNearestEven(big.e, hi, lo % LoBase, s.guard, s.sticky)

\* Python's x < y and x <= y for two floats.
FloatLess(x, y) ==
    \/ x.e < y.e
    \/ x.e = y.e /\ x.hi < y.hi
    \/ x.e = y.e /\ x.hi = y.hi /\ x.lo < y.lo

FloatLeq(x, y) == ~FloatLess(y, x)

\* ------------------------------------------------------------------------
\* The engine's state
\* ------------------------------------------------------------------------
VARIABLES
    population_size,    \* self.population_size
    chromosome_length,  \* self.chromosome_length
    crossover_prob,     \* self.crossover_prob, in units of 1/Den
    mutation_rate,      \* self.mutation_rate, in units of 1/Den
    elitism_num,        \* self.elitism_num
    population,         \* self.population: a sequence of chromosomes
    pc,                 \* position of run(): constructed, running, returned, raised
    generation,         \* number of completed iterations of the loop of run()
    max_generations,    \* argument of run()
    result,             \* value returned by run(), or the exception raised
    call                \* last direct call of an operator: [op, args, ret]

config == <<population_size, chromosome_length, crossover_prob,
            mutation_rate, elitism_num>>

vars == <<population_size, chromosome_length, crossover_prob, mutation_rate,
          elitism_num, population, pc, generation, max_generations, result,
          call>>

\* ------------------------------------------------------------------------
\* Operators of OneMaxGA
\* ------------------------------------------------------------------------
Bit == {0, 1}

\* range(n) of Python, as the 1-based indices 1..n (empty when n <= 0).
Range(n) == 1..n

\* random.random() and random.uniform(0, 1): a float in [0, 1).
Draws == 0..(Den - 1)

DrawValue(k) == TrueDiv(k, Den)

\* The least and the greatest draw: `random.uniform(0, 1) < p` is monotone
\* in the draw, so these two give every outcome of the test for every p.
Uniform == {0, Den - 1}

\* The bit strings that create_individual() can return.
Individuals(length) == [Range(length) -> Bit]

\* The populations that initialize_population() can return.
Populations(size, length) == [Range(size) -> Individuals(length)]

RECURSIVE evaluate_fitness(_)
evaluate_fitness(chromosome) ==
    IF chromosome = << >> THEN 0
    ELSE (IF Head(chromosome) # 0 THEN 1 ELSE 0) + evaluate_fitness(Tail(chromosome))

RECURSIVE TotalFitness(_)
TotalFitness(pop) ==
    IF pop = << >> THEN 0
    ELSE evaluate_fitness(Head(pop)) + TotalFitness(Tail(pop))

\* The loop that accumulates the probabilities, from index i on.
RECURSIVE Accumulate(_, _, _)
Accumulate(prob, i, acc) ==
    IF i > Len(prob) THEN acc
    ELSE IF i = 1 THEN Accumulate(prob, 2, <<prob[1]>>)
    ELSE IF i = Len(prob) THEN Accumulate(prob, i + 1, Append(acc, FloatOne))
    ELSE Accumulate(prob, i + 1, Append(acc, FloatAdd(acc[i - 1], prob[i])))

\* calculate_cumulative_probabilities(): the table, or the exception that
\* the division raises when the total fitness is 0.
calculate_cumulative_probabilities(pop) ==
    LET total_fitness == TotalFitness(pop)
    IN IF pop # << >> /\ total_fitness = 0
       THEN [error |-> "ZeroDivisionError", value |-> << >>]
       ELSE LET prob == [i \in 1..Len(pop) |->
                            TrueDiv(evaluate_fitness(pop[i]), total_fitness)]
            IN [error |-> "none", value |-> Accumulate(prob, 1, << >>)]

\* A bisection that stops on the left of the entries equal to x.
RECURSIVE bisect_left(_, _, _, _)
bisect_left(a, x, lo, hi) ==
    IF lo < hi
    THEN LET mid == (lo + hi) \div 2
         IN IF FloatLeq(x, a[mid + 1]) THEN bisect_left(a, x, lo, mid)
            ELSE bisect_left(a, x, mid + 1, hi)
    ELSE lo

\* bisect.bisect_right(a, x, lo, hi) with 0-based lo and hi.
RECURSIVE bisect(_, _, _, _)
bisect(a, x, lo, hi) ==
    IF lo < hi
    THEN LET mid == (lo + hi) \div 2
         IN IF FloatLess(x, a[mid + 1]) THEN bisect(a, x, lo, mid)
            ELSE bisect(a, x, mid + 1, hi)
    ELSE lo

\* random.choices(pop, cum_weights = cum, k = 2) for the draws r[1], r[2]:
\* the 1-based indices chosen.  The total cum[-1] is 1.0 for every table
\* of the program, so random() * total is the draw itself.
choices(pop, cum, r) ==
    [j \in 1..2 |-> bisect(cum, DrawValue(r[j]), 0, Len(pop) - 1) + 1]

\* select_parents() once the table is there, for the draws r: the two
\* parents, or the exception.
selected_parents(pop, cumulative_probabilities, r) ==
    IF cumulative_probabilities.error # "none"
    THEN [error |-> cumulative_probabilities.error, value |-> << >>]
    ELSE IF pop = << >>
    THEN [error |-> "IndexError", value |-> << >>]
    ELSE LET idx == choices(pop, cumulative_probabilities.value, r)
         IN [error |-> "none", value |-> <<pop[idx[1]], pop[idx[2]]>>]

select_parents(pop, r) ==
    selected_parents(pop, calculate_cumulative_probabilities(pop), r)

position == 2

\* A crossover that keeps only the genes before the crossover point.
crossover_truncated(parent1, parent2, prob, u) ==
    IF u < prob
    THEN << [i \in 1..(IF Len(parent1) < position THEN Len(parent1) ELSE position)
                |-> parent1[i]],
            [i \in 1..(IF Len(parent1) < position THEN Len(parent1) ELSE position)
                |-> parent2[i]] >>
    ELSE <<parent1, parent2>>

\* crossover(parent1, parent2) for the draw u and probability prob.
crossover(parent1, parent2, prob, u) ==
    IF u < prob
    THEN << [i \in 1..Len(parent1) |->
                IF i - 1 < position THEN parent1[i] ELSE parent2[i]],
            [i \in 1..Len(parent1) |->
                IF i - 1 < position THEN parent2[i] ELSE parent1[i]] >>
    ELSE <<parent1, parent2>>

\* mutate(chromosome) for the draws d[i] of the positions i, rate, length.
mutate(chromosome, length, rate, d) ==
    [i \in 1..Len(chromosome) |->
        IF i \in Range(length) /\ d[i] < rate
        THEN (IF chromosome[i] = 1 THEN 0 ELSE 1)
        ELSE chromosome[i]]

\* sorted(pop, key = evaluate_fitness, reverse = True): a stable sort, so
\* equal keys keep their order.
SortedDescending(pop) ==
    LET rank(i) == Cardinality({j \in 1..Len(pop) :
                       \/ evaluate_fitness(pop[j]) > evaluate_fitness(pop[i])
                       \/ /\ evaluate_fitness(pop[j]) = evaluate_fitness(pop[i])
                          /\ j < i}) + 1
    IN [k \in 1..Len(pop) |-> pop[CHOOSE i \in 1..Len(pop) : rank(i) = k]]

Min(a, b) == IF a < b THEN a ELSE b

\* An elitism that sorts ascending and so keeps the two worst individuals.
elitism_ascending(pop) ==
    LET s == SortedDescending(pop)
    IN [k \in 1..Min(2, Len(pop)) |-> s[Len(pop) + 1 - k]]

\* elitism(): the first two individuals of the sorted population.
elitism(pop) == SubSeq(SortedDescending(pop), 1, Min(2, Len(pop)))

\* max(pop, key = evaluate_fitness): the first maximum.
best_solution(pop) ==
    pop[CHOOSE i \in 1..Len(pop) :
            /\ \A j \in 1..Len(pop) :
                   evaluate_fitness(pop[j]) <= evaluate_fitness(pop[i])
            /\ \A j \in 1..(i - 1) :
                   evaluate_fitness(pop[j]) < evaluate_fitness(pop[i])]

\* s[0:n] of Python.
Slice(s, n) ==
    IF n >= 0 THEN SubSeq(s, 1, Min(n, Len(s)))
    ELSE SubSeq(s, 1, Len(s) + n)

\* The pairs of offspring that one iteration of the inner loop of run() can
\* append: select_parents, crossover, then mutate on each offspring, over
\* all outcomes of the random draws.
OffspringPairs(pop, length, cprob, mrate) ==
    LET cum      == calculate_cumulative_probabilities(pop)
        parents  == {selected_parents(pop, cum, r).value : r \in [1..2 -> Draws]}
        crossed  == {crossover(p[1], p[2], cprob, u) : p \in parents, u \in Uniform}
        mutants(c) == {mutate(c, length, mrate, d) : d \in [Range(length) -> Uniform]}
        mutated  == {<<mutants(o[1]), mutants(o[2])>> : o \in crossed}
    IN UNION {m[1] \X m[2] : m \in mutated}

\* The offspring buffer after n iterations of the inner loop.
RECURSIVE Buffers(_, _)
Buffers(pairs, n) ==
    IF n = 0 THEN {<< >>}
    ELSE {b \o p : b \in Buffers(pairs, n - 1), p \in pairs}

\* The number of iterations of `while len(new_population) < size`.
Iterations(size) == IF size <= 0 THEN 0 ELSE (size + 1) \div 2

\* The populations that one iteration of the outer loop of run() can
\* assign to self.population (the division does not raise).
NextPopulations(pop, size, length, cprob, mrate, elite) ==
    LET pairs == IF Iterations(size) = 0 THEN {}
                 ELSE OffspringPairs(pop, length, cprob, mrate)
        best_individuals == elitism(pop)
    IN {Slice(new_population, size - elite) \o best_individuals :
            new_population \in Buffers(pairs, Iterations(size))}

\* ------------------------------------------------------------------------
\* The engine as a state machine
\* ------------------------------------------------------------------------
NoResult == [error |-> "none", value |-> << >>]

NoCall == [op |-> "none", args |-> << >>, ret |-> << >>]

Sizes == 0..MaxPop

Lengths == (-1)..MaxLen

\* 0, a probability strictly between 0 and 1, 1, and one above 1.
Probabilities == {0, 1, Den, Den + 1}

\* __init__: stores the arguments and creates the population; nothing is
\* validated.
Init ==
    /\ population_size \in Sizes
    /\ chromosome_length \in Lengths
    /\ population_size * chromosome_length <= MaxGenes
    /\ crossover_prob \in Probabilities
    /\ mutation_rate \in Probabilities
    /\ elitism_num \in 0..(population_size + 1)
    /\ population \in Populations(population_size, chromosome_length)
    /\ pc = "constructed"
    /\ generation = 0
    /\ max_generations = 0
    /\ result = NoResult
    /\ call = NoCall

\* run(max_generations) is called.
Run ==
    /\ pc = "constructed"
    /\ \E n \in 0..MaxGen : max_generations' = n
    /\ pc' = "running"
    /\ UNCHANGED <<config, population, generation, result, call>>

\* One iteration of `for generation in range(max_generations)`.
Generation ==
    /\ pc = "running"
    /\ generation < max_generations
    /\ ~(population_size > 0 /\ TotalFitness(population) = 0)
    /\ population' \in NextPopulations(population, population_size,
                           chromosome_length, crossover_prob, mutation_rate,
                           elitism_num)
    /\ generation' = generation + 1
    /\ UNCHANGED <<config, pc, max_generations, result, call>>

\* The first select_parents() of an iteration divides by a total fitness
\* of 0: the exception leaves run().
RaiseZeroDivision ==
    /\ pc = "running"
    /\ generation < max_generations
    /\ population_size > 0
    /\ TotalFitness(population) = 0
    /\ pc' = "raised"
    /\ result' = [error |-> select_parents(population, <<0, 0>>).error,
                  value |-> << >>]
    /\ UNCHANGED <<config, population, generation, max_generations, call>>

\* The loop is over: max() returns the best individual, or raises
\* ValueError on an empty population.
Return ==
    /\ pc = "running"
    /\ generation = max_generations
    /\ IF population = << >>
       THEN /\ pc' = "raised"
            /\ result' = [error |-> "ValueError", value |-> << >>]
       ELSE /\ pc' = "returned"
            /\ result' = [error |-> "none", value |-> best_solution(population)]
    /\ UNCHANGED <<config, population, generation, max_generations, call>>

Next == Run \/ Generation \/ RaiseZeroDivision \/ Return

Spec == Init /\ [][Next]_vars

ValidConfiguration ==
    /\ population_size > 0
    /\ chromosome_length > 0
    /\ crossover_prob \in 0..Den
    /\ mutation_rate \in 0..Den
    /\ elitism_num \in 0..population_size

\* ------------------------------------------------------------------------
\* Direct calls of the operators on a constructed engine.  The operators
\* read the engine and do not change it, so one call is recorded per
\* behaviour.
\* ------------------------------------------------------------------------
CallCalculate ==
    /\ call = NoCall
    /\ call' = [op |-> "calculate_cumulative_probabilities", args |-> << >>,
                ret |-> calculate_cumulative_probabilities(population)]
    /\ UNCHANGED <<config, population, pc, generation, max_generations, result>>

CallSelectParents ==
    /\ call = NoCall
    /\ \E r \in [1..2 -> Draws] :
           call' = [op |-> "select_parents", args |-> r,
                    ret |-> select_parents(population, r)]
    /\ UNCHANGED <<config, population, pc, generation, max_generations, result>>

CallCrossover ==
    /\ call = NoCall
    /\ \E i, j \in 1..Len(population), u \in Draws :
           call' = [op |-> "crossover",
                    args |-> <<population[i], population[j], u>>,
                    ret |-> crossover(population[i], population[j],
                                      crossover_prob, u)]
    /\ UNCHANGED <<config, population, pc, generation, max_generations, result>>

CallMutate ==
    /\ call = NoCall
    /\ \E i \in 1..Len(population), d \in [Range(chromosome_length) -> Draws] :
           call' = [op |-> "mutate", args |-> <<population[i], d>>,
                    ret |-> mutate(population[i], chromosome_length,
                                   mutation_rate, d)]
    /\ UNCHANGED <<config, population, pc, generation, max_generations, result>>

CallElitism ==
    /\ call = NoCall
    /\ call' = [op |-> "elitism", args |-> << >>, ret |-> elitism(population)]
    /\ UNCHANGED <<config, population, pc, generation, max_generations, result>>

OpNext ==
    CallCalculate \/ CallSelectParents \/ CallCrossover \/ CallMutate
        \/ CallElitism

OpSpec == Init /\ [][OpNext]_vars

\* The table on larger populations of short chromosomes.
TableInit ==
    /\ population_size \in 1..TablePop
    /\ chromosome_length \in 1..TableLen
    /\ crossover_prob = Den
    /\ mutation_rate = 0
    /\ elitism_num = 0
    /\ population \in Populations(population_size, chromosome_length)
    /\ pc = "constructed"
    /\ generation = 0
    /\ max_generations = 0
    /\ result = NoResult
    /\ call = NoCall

TableSpec == TableInit /\ [][CallCalculate]_vars

\* ------------------------------------------------------------------------
\* Properties
\* ------------------------------------------------------------------------
MaxFitness(pop) == evaluate_fitness(best_solution(pop))

IsChromosome(c) ==
    /\ Len(c) = chromosome_length
    /\ \A i \in 1..Len(c) : c[i] \in Bit

\* C1: for a valid configuration, after each generation of run() the
\* population holds exactly population_size chromosomes.
C1_PopulationSizeConstant ==
    (ValidConfiguration /\ generation >= 1)
        => Len(population) = population_size

\* C2: with elitism_num >= 1, a generation of run() never lowers the
\* maximum fitness present in the population, whatever the probabilities
\* and the random draws.
C2_MaxFitnessNonDecreasing ==
    [][(elitism_num >= 1 /\ population # << >>
            /\ generation' = generation + 1)
        => MaxFitness(population') >= MaxFitness(population)]_vars

\* A generation has completed with elitism_num >= 1 and left an offspring
\* that is worse than the best individual.
C2_Witness ==
    /\ ValidConfiguration
    /\ generation >= 1
    /\ elitism_num >= 1
    /\ population_size > elitism_num
    /\ evaluate_fitness(population[1]) < MaxFitness(population)

\* C3: when every individual has fitness 0, parent selection does not fail
\* with a division by zero and the generation completes.
C3_ZeroFitnessFallback ==
    ValidConfiguration => result.error # "ZeroDivisionError"

\* C4: an invalid configuration is rejected at construction with
\* InvalidConfiguration: no population is created and run() is not reached.
C4_InvalidConfigurationRejected ==
    ~ValidConfiguration
        => /\ pc = "raised"
           /\ result.error = "InvalidConfiguration"
           /\ population = << >>

\* C5: for a valid configuration, in the initial population and after every
\* generation (whose offspring crossover and mutate produced) every
\* chromosome of the population has length chromosome_length and genes in
\* {0, 1}.
C5_ChromosomeLength ==
    ValidConfiguration
        => \A i \in 1..Len(population) : IsChromosome(population[i])

\* A generation has completed in which crossover always recombines at a
\* point inside the chromosome and an offspring is kept.
C5_Witness ==
    /\ ValidConfiguration
    /\ generation >= 1
    /\ chromosome_length > position
    /\ crossover_prob = Den
    /\ mutation_rate \in 1..(Den - 1)
    /\ population_size > elitism_num
    /\ population[1] # population[2]

\* C6: run(max_generations) performs exactly max_generations generations
\* and then returns the first individual of maximum fitness of the final
\* population.
C6_RunReturnsBest ==
    (ValidConfiguration /\ pc \in {"returned", "raised"})
        => /\ pc = "returned"
           /\ generation = max_generations
           /\ result.value = best_solution(population)

\* C7: for a population of positive total fitness the table has one entry
\* per individual, is non-decreasing, has every entry in (0, 1] and ends
\* with exactly 1.
C7_TableMonotone ==
    (call.op = "calculate_cumulative_probabilities" /\ call.ret.error = "none")
        => LET t == call.ret.value
           IN /\ Len(t) = Len(population)
              /\ \A i \in 1..(Len(t) - 1) : FloatLeq(t[i], t[i + 1])
              /\ \A i \in 1..Len(t) :
                     FloatLess(FloatZero, t[i]) /\ FloatLeq(t[i], FloatOne)
              /\ t[Len(t)] = FloatOne

\* C8: elitism() returns exactly the first elitism_num individuals of the
\* population sorted by fitness descending, ties in population order.
C8_ElitismCount ==
    (ValidConfiguration /\ call.op = "elitism")
        => call.ret = SubSeq(SortedDescending(population), 1, elitism_num)

\* parent1[0:p] + parent2[p:L]
OnePoint(parent1, parent2, p) ==
    [i \in 1..Len(parent1) |-> IF i <= p THEN parent1[i] ELSE parent2[i]]

\* C9: crossover recombines at a point p with 1 <= p < L when the draw is
\* below crossover_prob, and returns the parents otherwise.
C9_CrossoverPoint ==
    (ValidConfiguration /\ call.op = "crossover")
        => LET parent1 == call.args[1]
               parent2 == call.args[2]
               u       == call.args[3]
           IN IF u < crossover_prob
              THEN \E p \in 1..(chromosome_length - 1) :
                       call.ret = <<OnePoint(parent1, parent2, p),
                                    OnePoint(parent2, parent1, p)>>
              ELSE call.ret = <<parent1, parent2>>

\* The first index of the table whose entry is >= x, and the first whose
\* entry is > x.
FirstAtLeast(t, x) ==
    CHOOSE i \in 1..Len(t) :
        /\ FloatLeq(x, t[i])
        /\ \A j \in 1..(i - 1) : ~FloatLeq(x, t[j])

FirstGreater(t, x) ==
    CHOOSE i \in 1..Len(t) :
        /\ FloatLess(x, t[i])
        /\ \A j \in 1..(i - 1) : ~FloatLess(x, t[j])

SelectionCalled ==
    /\ call.op = "select_parents"
    /\ call.ret.error = "none"
    /\ TotalFitness(population) > 0

\* C10 as stated: each parent is the first individual whose cumulative
\* entry is >= the value drawn for it.
C10_FirstAtLeast ==
    SelectionCalled
        => LET t == calculate_cumulative_probabilities(population).value
           IN /\ Len(call.ret.value) = 2
              /\ \A k \in 1..2 :
                     call.ret.value[k] =
                         population[FirstAtLeast(t, DrawValue(call.args[k]))]

\* C10, amended: each parent is the first individual whose cumulative
\* entry is > the value drawn for it.
C10_FirstGreater ==
    SelectionCalled
        => LET t == calculate_cumulative_probabilities(population).value
           IN /\ Len(call.ret.value) = 2
              /\ \A k \in 1..2 :
                     call.ret.value[k] =
                         population[FirstGreater(t, DrawValue(call.args[k]))]

\* A draw equal to the cumulative entry of an individual selected the
\* next individual, which differs from it.
C10_Witness ==
    /\ SelectionCalled
    /\ LET t == calculate_cumulative_probabilities(population).value
       IN \E k \in 1..2, i \in 1..(Len(t) - 1) :
              /\ t[i] = DrawValue(call.args[k])
              /\ call.ret.value[k] = population[i + 1]
              /\ population[i + 1] # population[i]

====
